---- MODULE Spec2Model ----
(***************************************************************************)
(* The two services of dlsite-browsing-companion-backend.                  *)
(*                                                                         *)
(*   comment_generation/app.py   buffered mode: lambda_handler validates   *)
(*       the API Gateway event and calls generate_comment, which tries the *)
(*       preferred backend and falls back to the other one.                *)
(*   streaming_response/main.py  streaming mode: the FastAPI route index   *)
(*       hands xai_streamer to a StreamingResponse.                        *)
(*                                                                         *)
(* The remote providers, the secret store and DynamoDB are the environment:*)
(* what they answer is chosen nondeterministically for every request.      *)
(***************************************************************************)
EXTENDS Naturals, Sequences, FiniteSets, TLC

\* ------------------------------------------------------------------ bounds
\* Longest "input" string of a request body, in characters.
MaxPromptLen == 2
\* Longest provider stream, in events.
MaxStreamLen == 3

\* ------------------------------------------------------------ Python values
\* A Python value that is None or a str (texts are atoms).
NoneVal == [none |-> TRUE, s |-> ""]
StrVal(s) == [none |-> FALSE, s |-> s]

\* The outcome of a Python call: it returns a value or raises an exception.
Return(v) == [kind |-> "return", value |-> v, exc |-> ""]
Raise(e) == [kind |-> "raise", value |-> NoneVal, exc |-> e]

\* The exception classes a backend call may raise: the classes app.py imports
\* from openai and grpc, and TypeError for any exception outside both except
\* clauses (a programming defect).
Exceptions == {"APIError", "APIConnectionError", "RateLimitError", "RpcError", "TypeError"}
OpenAIExceptions == {"APIError", "APIConnectionError", "RateLimitError", "TypeError"}
XaiExceptions == {"RpcError", "TypeError"}

\* The texts a provider may generate.
Texts == {"", "Hello!", "Nice work"}

\* -------------------------------------------------------------- JSON values
\* A field of a JSON object: absent, null, a number or a string.  The string
\* of "input" is a sequence of characters, so that strip() is computed.
Absent == [t |-> "absent", n |-> 0, v |-> <<>>]
JNull == [t |-> "null", n |-> 0, v |-> <<>>]
JNum(n) == [t |-> "num", n |-> n, v |-> <<>>]
JStr(s) == [t |-> "str", n |-> 0, v |-> s]
\* The same for a field whose strings are kept as atoms.
AAbsent == [t |-> "absent", v |-> ""]
ANull == [t |-> "null", v |-> ""]
AStr(s) == [t |-> "str", v |-> s]

Chars == {" ", "\n", "a"}
\* str.strip() removes these from both ends.
Whitespace == {" ", "\n", "\t"}

RECURSIVE SeqsUpTo(_)
SeqsUpTo(n) ==
    IF n = 0 THEN {<<>>}
    ELSE LET shorter == SeqsUpTo(n - 1)
         IN  shorter \cup {Append(s, c) : s \in {x \in shorter : Len(x) = n - 1}, c \in Chars}

PromptStrings == SeqsUpTo(MaxPromptLen)

InputValues == {Absent, JNull, JNum(0), JNum(5)} \cup {JStr(s) : s \in PromptStrings}
InstructionValues == {Absent, JStr(<<>>), JStr(<<"a">>)}
ApiValues == {AAbsent, ANull, AStr("openai"), AStr("xai"), AStr("foo")}

\* The JSON objects a request body may hold.
BodyObjects == [input : InputValues, instruction : InstructionValues, api : ApiValues]
EmptyObject == [input |-> Absent, instruction |-> Absent, api |-> AAbsent]

\* event["body"]: the key is missing, the value is None, the text is not JSON,
\* the text is JSON but no object (a list), or the text is a JSON object.
RawBodies ==
    {[k |-> kind, obj |-> EmptyObject] : kind \in {"missing", "none", "malformed", "list"}}
    \cup {[k |-> "object", obj |-> o] : o \in BodyObjects}

Events == [httpMethod : {"OPTIONS", "POST"}, body : RawBodies]

\* ------------------------------------------------------- provider behaviour
\* What openai_client.responses.create does for this request: it raises, or
\* returns a response object that has an output_text attribute or has none.
OpenAIBehaviours ==
    {[kind |-> "raise", exc |-> e, has_output_text |-> FALSE, output_text |-> ""] : e \in OpenAIExceptions}
    \cup {[kind |-> "response", exc |-> "", has_output_text |-> TRUE, output_text |-> t] : t \in Texts}
    \cup {[kind |-> "response", exc |-> "", has_output_text |-> FALSE, output_text |-> ""]}

\* What chat.sample() does for this request: it raises, or returns a response
\* whose content is a text.
XaiBehaviours ==
    {[kind |-> "raise", exc |-> e, content |-> ""] : e \in XaiExceptions}
    \cup {[kind |-> "response", exc |-> "", content |-> t] : t \in Texts}

\* ------------------------------------------------- comment_generation/app.py
\* str.strip()
RECURSIVE lstrip(_)
lstrip(s) == IF s # <<>> /\ Head(s) \in Whitespace THEN lstrip(Tail(s)) ELSE s

RECURSIVE rstrip(_)
rstrip(s) ==
    IF s # <<>> /\ s[Len(s)] \in Whitespace THEN rstrip(SubSeq(s, 1, Len(s) - 1)) ELSE s

strip(s) == rstrip(lstrip(s))

\* dict.get(key, default)
get(body, key, default) == IF body[key].t = "absent" THEN default ELSE body[key]

\* Python truthiness of a JSON value.
Truthy(x) ==
    CASE x.t = "str" -> x.v # <<>>
      [] x.t = "num" -> x.n # 0
      [] OTHER -> FALSE

\* json.loads(event.get('body', '{}'))
json_loads(raw) ==
    CASE raw.k = "missing" -> Return(EmptyObject)
      [] raw.k = "none" -> Raise("TypeError")
      [] raw.k = "malformed" -> Raise("JSONDecodeError")
      [] OTHER -> Return(raw.obj)

\* json.dumps of a dict of strings; "" is the empty body of the preflight answer.
json_dumps(doc) == [kind |-> "json", doc |-> doc]
EmptyBody == [kind |-> "empty", doc |-> <<>>]

headers ==
    [allow_origin |-> "*", allow_headers |-> "Content-Type,Authorization",
     allow_methods |-> "OPTIONS,POST", content_type |-> "application/json"]

Response(status, body) ==
    [kind |-> "response", statusCode |-> status, headers |-> headers, body |-> body, exc |-> ""]
\* The handler raised: the host runtime's fault handling takes over.
Fault(e) ==
    [kind |-> "fault", statusCode |-> 0, headers |-> headers, body |-> EmptyBody, exc |-> e]

\* getattr(response, 'output_text', None)
getattr_output_text(response) ==
    IF response.has_output_text THEN StrVal(response.output_text) ELSE NoneVal

call_openai_api(client, prompt, instruction) ==
    IF client.kind = "raise" THEN Raise(client.exc)
    ELSE Return(getattr_output_text(client))

call_xai_api(client, prompt, instruction) ==
    IF client.kind = "raise" THEN Raise(client.exc)
    ELSE Return(StrVal(client.content))

\* except (APIError, APIConnectionError, RateLimitError)
OpenAIErrors_all == Exceptions
OpenAIErrors_rateLimitOnly == {"RateLimitError"}
OpenAIErrors == {"APIError", "APIConnectionError", "RateLimitError"}
\* except grpc.RpcError
XaiErrors == {"RpcError"}

\* One try/except with a fallback call in the handler: the outcome of the
\* preferred call stands unless it raised one of `caught`; then the outcome of
\* the fallback call stands unless it raised one of `caughtFallback`, which
\* leaves output_text None.  `calls` is the order the backends were called in.
TryWithFallback_uncaughtFallback(first, firstName, caught, second, secondName, caughtFallback) ==
    IF first.kind = "raise" /\ first.exc \in caught
    THEN [calls |-> <<firstName, secondName>>, outcome |-> second]
    ELSE [calls |-> <<firstName>>, outcome |-> first]
TryWithFallback_onNoText(first, firstName, caught, second, secondName, caughtFallback) ==
    IF (first.kind = "raise" /\ first.exc \in caught)
       \/ (first.kind = "return" /\ (first.value.none \/ first.value.s = ""))
    THEN [calls |-> <<firstName, secondName>>,
          outcome |-> IF second.kind = "raise" /\ second.exc \in caughtFallback
                      THEN Return(NoneVal)
                      ELSE second]
    ELSE [calls |-> <<firstName>>, outcome |-> first]
TryWithFallback(first, firstName, caught, second, secondName, caughtFallback) ==
    IF first.kind = "raise" /\ first.exc \in caught
    THEN [calls |-> <<firstName, secondName>>,
          outcome |-> IF second.kind = "raise" /\ second.exc \in caughtFallback
                      THEN Return(NoneVal)
                      ELSE second]
    ELSE [calls |-> <<firstName>>, outcome |-> first]

generate_comment_swapped(openai, xai, prompt, instruction, api) ==
    IF api = "xai"
    THEN TryWithFallback(call_openai_api(openai, prompt, instruction), "openai", OpenAIErrors,
                         call_xai_api(xai, prompt, instruction), "xai", XaiErrors)
    ELSE TryWithFallback(call_xai_api(xai, prompt, instruction), "xai", XaiErrors,
                         call_openai_api(openai, prompt, instruction), "openai", OpenAIErrors)
generate_comment(openai, xai, prompt, instruction, api) ==
    IF api = "openai"
    THEN TryWithFallback(call_openai_api(openai, prompt, instruction), "openai", OpenAIErrors,
                         call_xai_api(xai, prompt, instruction), "xai", XaiErrors)
    ELSE TryWithFallback(call_xai_api(xai, prompt, instruction), "xai", XaiErrors,
                         call_openai_api(openai, prompt, instruction), "openai", OpenAIErrors)

\* output_text before generate_comment has returned, and an answer given
\* without calling it.
NotGenerated == [kind |-> "none", value |-> NoneVal, exc |-> ""]
NoCalls(resp) == [calls |-> <<>>, resp |-> resp, output_text |-> NotGenerated]

\* api not in ('openai', 'xai')
ValidApi_any(api) == TRUE
ValidApi(api) == api.t = "str" /\ api.v \in {"openai", "xai"}

\* body.get('api', 'xai')
DefaultApi == AStr("xai")

\* not prompt or not prompt.strip(); a truthy prompt that is no str has no
\* strip(), which the caller turns into AttributeError.
BlankPrompt(prompt) == ~Truthy(prompt) \/ (prompt.t = "str" /\ strip(prompt.v) = <<>>)

\* if output_text is None: 500, else 200
ResultResponse(value) ==
    IF value.none
    THEN Response(500, json_dumps("error" :> "Comment generation failed"))
    ELSE Response(200, json_dumps("output_text" :> value.s))

\* The handler from the parsed body on (lines 165-199).
HandleBody(openai, xai, body) ==
    LET prompt == get(body, "input", JStr(<<>>))
        instruction == get(body, "instruction", JStr(<<>>))
        api == get(body, "api", DefaultApi)
    IN  IF BlankPrompt(prompt)
        THEN NoCalls(Response(400, json_dumps("error" :> "Prompt is required")))
        ELSE IF prompt.t # "str"
        THEN NoCalls(Fault("AttributeError"))
        ELSE IF ~ValidApi(api)
        THEN NoCalls(Response(400, json_dumps("error" :> "api must be 'openai' or 'xai'")))
        ELSE LET g == generate_comment(openai, xai, prompt.v, instruction, api.v)
             IN  [calls |-> g.calls,
                  output_text |-> g.outcome,
                  resp |-> IF g.outcome.kind = "raise"
                           THEN Fault(g.outcome.exc)
                           ELSE ResultResponse(g.outcome.value)]

\* The answer to a body that is not JSON.
InvalidJson(openai, xai) == NoCalls(Response(400, json_dumps("error" :> "Invalid JSON format")))

lambda_handler(openai, xai, event) ==
    IF event.httpMethod = "OPTIONS"
    THEN NoCalls(Response(200, EmptyBody))
    ELSE LET parsed == json_loads(event.body)
         IN  IF parsed.kind = "raise"
             THEN IF parsed.exc = "JSONDecodeError"
                  THEN InvalidJson(openai, xai)
                  ELSE NoCalls(Fault(parsed.exc))
             ELSE IF event.body.k = "list"
             THEN NoCalls(Fault("AttributeError"))
             ELSE HandleBody(openai, xai, parsed.value)

\* ------------------------------------------------ streaming_response/main.py
\* A workInfo object as the client sends it (its JSON keys).
WorkObjects ==
    {[name |-> "Title", price |-> "880", officialPrice |-> "1100", couponPrice |-> ANull,
      pricePrefix |-> "JPY", genres |-> <<"ASMR", "Voice">>, description |-> "A story."],
     [name |-> "Title", price |-> "880", officialPrice |-> "1100", couponPrice |-> AStr("700"),
      pricePrefix |-> "JPY", genres |-> <<"ASMR">>, description |-> "A story."],
     [name |-> "", price |-> "0", officialPrice |-> "0", couponPrice |-> ANull,
      pricePrefix |-> "", genres |-> <<>>, description |-> ""]}
NoWork == [name |-> "", price |-> "", officialPrice |-> "", couponPrice |-> ANull,
           pricePrefix |-> "", genres |-> <<>>, description |-> ""]

\* The "workInfo" field of a body: absent, present but not a valid WorkInfo
\* (a field missing or of the wrong type), or a valid one.
WorkInfoValues ==
    {[t |-> "absent", w |-> NoWork], [t |-> "invalid", w |-> NoWork]}
    \cup {[t |-> "object", w |-> w] : w \in WorkObjects}

\* The "request" field of the docstring of index: a prompt string.
RequestValues == {Absent, JStr(<<>>), JStr(<<" ">>), JStr(<<"a">>)}

StreamBodies ==
    {[k |-> "malformed", request |-> Absent, workInfo |-> [t |-> "absent", w |-> NoWork]]}
    \cup {[k |-> "object", request |-> r, workInfo |-> w] : r \in RequestValues, w \in WorkInfoValues}

\* What table.get_item does: it raises ClientError, or returns a response
\* without Item, with an Item lacking "text", or with the stored text.
DynamoBehaviours == {"ClientError", "noItem", "noAttribute", "item"}
StoredInstructions == "Comment briefly."

\* The fragments of text a provider stream carries.
Fragments == {"", "He", "llo"}
\* chat.stream() of xai_sdk: (response, chunk) pairs, chunk.content a fragment.
XaiItems == [content : Fragments]
\* The events of an OpenAI response stream: text deltas and other events.
OpenAIStreamEvents ==
    {[type |-> "response.output_text.delta", delta |-> f] : f \in {"He", "llo"}}
    \cup {[type |-> "response.created", delta |-> ""]}

RECURSIVE SeqsOver(_, _)
SeqsOver(S, n) ==
    IF n = 0 THEN {<<>>}
    ELSE LET shorter == SeqsOver(S, n - 1)
         IN  shorter \cup {Append(s, e) : s \in {x \in shorter : Len(x) = n - 1}, e \in S}

\* A provider stream: the items it emits, then it completes ("stop") or fails
\* ("raise") at the next request.
XaiStreams == [events : SeqsOver(XaiItems, MaxStreamLen), ending : {"stop", "raise"}]
OpenAIStreams == [events : SeqsOver(OpenAIStreamEvents, MaxStreamLen), ending : {"stop", "raise"}]
NoStream == [events |-> <<>>, ending |-> "stop"]

\* AskRequest / WorkInfo: pydantic's validation of the parsed body.  Both
\* price_prefix and price_suffix are read from the key "pricePrefix".
WorkInfo(w) ==
    [name |-> w.name, price |-> w.price, official_price |-> w.officialPrice,
     coupon_price |-> w.couponPrice, price_prefix |-> w.pricePrefix,
     price_suffix |-> w.pricePrefix, genres |-> w.genres, description |-> w.description]

AskRequest(body) ==
    IF body.k = "object" /\ body.workInfo.t = "object"
    THEN Return([work_info |-> WorkInfo(body.workInfo.w)])
    ELSE Raise("RequestValidationError")

\* ', '.join(genres)
RECURSIVE join(_)
join(genres) ==
    IF genres = <<>> THEN ""
    ELSE IF Len(genres) = 1 THEN genres[1]
    ELSE genres[1] \o ", " \o join(Tail(genres))

create_comment_prompt(work) ==
    LET coupon_line ==
            IF work.coupon_price.t # "null"
            THEN "\nCoupon price: " \o work.price_prefix \o work.coupon_price.v \o work.price_suffix
            ELSE ""
    IN  "Comment briefly on the work described below.\n"
        \o "Output the comment text only.\n\n"
        \o "Title: " \o work.name \o "\n"
        \o "Price: " \o work.price_prefix \o work.price \o work.price_suffix
        \o " (list price: " \o work.price_prefix \o work.official_price \o work.price_suffix \o ")"
        \o coupon_line \o "\n"
        \o "Genres: " \o join(work.genres) \o "\n"
        \o "Description:\n"
        \o work.description

get_dynamodb_item(dynamo) ==
    CASE dynamo = "ClientError" -> Raise("RuntimeError")
      [] dynamo \in {"noItem", "noAttribute"} -> Raise("ValueError")
      [] OTHER -> Return(StrVal(StoredInstructions))

\* The generator xai_streamer, resumed after `requested` requests to the
\* provider stream: it requests one more item and yields its content, or ends
\* as the provider stream ends.
xai_streamer_skipping(provider, requested) ==
    IF requested + 1 < Len(provider.events)
    THEN [requested |-> requested + 2, kind |-> "yield", chunk |-> provider.events[requested + 2].content]
    ELSE [requested |-> Len(provider.events) + 1, kind |-> provider.ending, chunk |-> ""]
xai_streamer(provider, requested) ==
    IF requested < Len(provider.events)
    THEN [requested |-> requested + 1, kind |-> "yield", chunk |-> provider.events[requested + 1].content]
    ELSE [requested |-> requested + 1, kind |-> provider.ending, chunk |-> ""]

\* The generator openai_streamer: it requests events until one is a text
\* delta, which it yields.
RECURSIVE openai_streamer(_, _)
openai_streamer(provider, requested) ==
    IF requested < Len(provider.events)
    THEN IF provider.events[requested + 1].type = "response.output_text.delta"
         THEN [requested |-> requested + 1, kind |-> "yield", chunk |-> provider.events[requested + 1].delta]
         ELSE openai_streamer(provider, requested + 1)
    ELSE [requested |-> requested + 1, kind |-> provider.ending, chunk |-> ""]

\* Neither generator catches anything: a cancellation raised at its await or
\* its yield ends it, and it requests nothing more.
streamer_cancelled_draining(provider, requested) == Len(provider.events) + 1
streamer_cancelled(provider, requested) == requested

resume(which, provider, requested) ==
    IF which = "xai" THEN xai_streamer(provider, requested)
    ELSE openai_streamer(provider, requested)

\* A response of the FastAPI application.
HttpResponse(status, media_type, body) ==
    [kind |-> "response", statusCode |-> status, headers |-> [content_type |-> media_type],
     body |-> body, exc |-> ""]
\* index raised: the framework's fault handling takes over.
HttpFault(e) ==
    [kind |-> "fault", statusCode |-> 0, headers |-> [content_type |-> ""], body |-> EmptyBody,
     exc |-> e]

\* The route: FastAPI validates the body against AskRequest before index
\* runs; no exception handler is registered, so a body that fails is answered
\* by the framework with 422 and index is not called.
index(body, dynamo) ==
    LET parsed == AskRequest(body)
    IN  IF parsed.kind = "raise"
        THEN [resp |-> HttpResponse(422, "application/json", json_dumps("detail" :> parsed.exc)),
              streaming |-> FALSE, prompt |-> ""]
        ELSE LET prompt == create_comment_prompt(parsed.value.work_info)
                 instructions == get_dynamodb_item(dynamo)
             IN  IF instructions.kind = "raise"
                 THEN [resp |-> HttpFault(instructions.exc), streaming |-> FALSE, prompt |-> prompt]
                 ELSE [resp |-> HttpResponse(200, "text/plain", EmptyBody), streaming |-> TRUE,
                       prompt |-> prompt]

\* ------------------------------------------------------------------- state
VARIABLES
    mode,           \* which service handled the last request: "none", "buffered", "streaming"
    request,        \* the event (buffered) or the body (streaming) of that request
    openai_client,  \* what the OpenAI backend does for it (buffered)
    xai_client,     \* what the xAI backend does for it (buffered)
    calls,          \* the backends called for it, in order
    output_text,    \* what generate_comment returned or raised (buffered)
    resp,           \* the response, or the fault that left the handler
    prompt,         \* the prompt index synthesized (streaming)
    streamer,       \* the generator handed to StreamingResponse: "xai" or "openai"
    provider,       \* the provider stream it reads
    requested,      \* how many items it has requested from that stream
    gen,            \* "idle", "ready", "yielded", "complete", "failed", "cancelled"
    pending,        \* the chunk yielded and not yet written
    written,        \* the chunks written to the client, in order
    connected       \* whether the client's transport is open

vars == <<mode, request, openai_client, xai_client, calls, output_text, resp, prompt, streamer, provider,
          requested, gen, pending, written, connected>>

NoClientOpenAI == [kind |-> "response", exc |-> "", has_output_text |-> FALSE, output_text |-> ""]
NoClientXai == [kind |-> "response", exc |-> "", content |-> ""]

Init ==
    /\ mode = "none"
    /\ request = [httpMethod |-> "OPTIONS", body |-> [k |-> "missing", obj |-> EmptyObject]]
    /\ openai_client = NoClientOpenAI
    /\ xai_client = NoClientXai
    /\ calls = <<>>
    /\ output_text = NotGenerated
    /\ resp = Response(200, EmptyBody)
    /\ prompt = ""
    /\ streamer = "xai"
    /\ provider = NoStream
    /\ requested = 0
    /\ gen = "idle"
    /\ pending = ""
    /\ written = <<>>
    /\ connected = TRUE

\* No request has arrived yet.  The handlers keep nothing from one request to
\* the next, so a behaviour follows one request from its arrival to its end.
Quiet == mode = "none"

\* One invocation of lambda_handler, with what the two backends do for it.
LambdaHandler ==
    /\ Quiet
    /\ \E event \in Events, openai \in OpenAIBehaviours, xai \in XaiBehaviours :
        /\ LET r == lambda_handler(openai, xai, event)
           IN  /\ calls' = r.calls
               /\ output_text' = r.output_text
               /\ resp' = r.resp
        /\ mode' = "buffered"
        /\ request' = event
        /\ openai_client' = openai
        /\ xai_client' = xai
        /\ prompt' = ""
        /\ streamer' = "xai"
        /\ provider' = NoStream
        /\ requested' = 0
        /\ gen' = "idle"
        /\ pending' = ""
        /\ written' = <<>>
        /\ connected' = TRUE

\* One POST to the streaming service: index returns a StreamingResponse over
\* xai_streamer, whose body has not run yet.
Index ==
    /\ Quiet
    /\ \E body \in StreamBodies, dynamo \in DynamoBehaviours, stream \in XaiStreams :
        /\ LET r == index(body, dynamo)
           IN  /\ resp' = r.resp
               /\ prompt' = r.prompt
               /\ gen' = IF r.streaming THEN "ready" ELSE "idle"
               /\ provider' = IF r.streaming THEN stream ELSE NoStream
        /\ mode' = "streaming"
        /\ request' = body
        /\ openai_client' = NoClientOpenAI
        /\ xai_client' = NoClientXai
        /\ calls' = <<>>
        /\ output_text' = NotGenerated
        /\ streamer' = "xai"
        /\ requested' = 0
        /\ pending' = ""
        /\ written' = <<>>
        /\ connected' = TRUE

\* StreamingResponse asks the generator for its next chunk.
Pull ==
    /\ gen = "ready"
    /\ LET r == resume(streamer, provider, requested)
       IN  /\ requested' = r.requested
           /\ pending' = r.chunk
           /\ gen' = CASE r.kind = "yield" -> "yielded"
                       [] r.kind = "stop" -> "complete"
                       [] OTHER -> "failed"
    /\ calls' = IF calls = <<>> THEN <<streamer>> ELSE calls
    /\ UNCHANGED <<mode, request, openai_client, xai_client, output_text, resp, prompt, streamer, provider,
                   written, connected>>

\* StreamingResponse writes the chunk it was given to the transport.
Write ==
    /\ gen = "yielded"
    /\ written' = Append(written, pending)
    /\ pending' = ""
    /\ gen' = "ready"
    /\ UNCHANGED <<mode, request, openai_client, xai_client, calls, output_text, resp, prompt, streamer,
                   provider, requested, connected>>

\* The client closes its transport while the response is being streamed.
Disconnect ==
    /\ gen \in {"ready", "yielded"}
    /\ connected
    /\ connected' = FALSE
    /\ UNCHANGED <<mode, request, openai_client, xai_client, calls, output_text, resp, prompt, streamer,
                   provider, requested, gen, pending, written>>

\* StreamingResponse observes the disconnect and cancels the task that
\* iterates the generator.
Cancel ==
    /\ gen \in {"ready", "yielded"}
    /\ ~connected
    /\ gen' = "cancelled"
    /\ requested' = streamer_cancelled(provider, requested)
    /\ pending' = ""
    /\ UNCHANGED <<mode, request, openai_client, xai_client, calls, output_text, resp, prompt, streamer,
                   provider, written, connected>>

\* openai_streamer driven as index's commented-out line would drive it.
IndexOpenAI ==
    /\ Quiet
    /\ \E body \in StreamBodies, dynamo \in DynamoBehaviours, stream \in OpenAIStreams :
        /\ LET r == index(body, dynamo)
           IN  /\ resp' = r.resp
               /\ prompt' = r.prompt
               /\ gen' = IF r.streaming THEN "ready" ELSE "idle"
               /\ provider' = IF r.streaming THEN stream ELSE NoStream
               /\ streamer' = IF r.streaming THEN "openai" ELSE "xai"
        /\ mode' = "streaming"
        /\ request' = body
        /\ openai_client' = NoClientOpenAI
        /\ xai_client' = NoClientXai
        /\ calls' = <<>>
        /\ output_text' = NotGenerated
        /\ requested' = 0
        /\ pending' = ""
        /\ written' = <<>>
        /\ connected' = TRUE

Next == LambdaHandler \/ Index \/ Pull \/ Write \/ Disconnect \/ Cancel

\* The two services as deployed.
Spec == Init /\ [][Next]_vars

NextStreamers == Index \/ IndexOpenAI \/ Pull \/ Write \/ Disconnect \/ Cancel

\* The streaming service with either generator behind the response.
SpecStreamers == Init /\ [][NextStreamers]_vars

\* ------------------------------------------------- the requests of the claims
\* The JSON object lambda_handler works on (a missing body reads as '{}').
ReqObject == IF request.body.k = "object" THEN request.body.obj ELSE EmptyObject

\* A buffered POST whose body parses to a JSON object.
BufferedPost ==
    /\ mode = "buffered"
    /\ request.httpMethod = "POST"
    /\ request.body.k \in {"missing", "object"}

\* Its "input" is a string with a character that is not whitespace.
NonBlankInput ==
    /\ ReqObject.input.t = "str"
    /\ \E i \in 1..Len(ReqObject.input.v) : ReqObject.input.v[i] \notin Whitespace

\* Its "input" is missing, empty or whitespace only.
BlankInput ==
    \/ ReqObject.input.t = "absent"
    \/ /\ ReqObject.input.t = "str"
       /\ \A i \in 1..Len(ReqObject.input.v) : ReqObject.input.v[i] \in Whitespace

\* A request that reaches generate_comment: "api" names a backend or is absent.
GenerationRequest ==
    /\ BufferedPost
    /\ NonBlankInput
    /\ ReqObject.api \in {AAbsent, AStr("openai"), AStr("xai")}

Preferred == IF ReqObject.api = AStr("openai") THEN "openai" ELSE "xai"
Alternate == IF Preferred = "openai" THEN "xai" ELSE "openai"

\* What the environment makes a backend's call do for this request.
CallRaises(b) == IF b = "openai" THEN openai_client.kind = "raise" ELSE xai_client.kind = "raise"
RaisedBy(b) == IF b = "openai" THEN openai_client.exc ELSE xai_client.exc
\* The call returns a text (possibly the empty one).
CallReturnsText(b) ==
    IF b = "openai"
    THEN openai_client.kind = "response" /\ openai_client.has_output_text
    ELSE xai_client.kind = "response"
TextOf(b) == IF b = "openai" THEN openai_client.output_text ELSE xai_client.content
\* The call returns, but carries no text: the output is missing or empty.
CallReturnsNoText(b) ==
    /\ ~CallRaises(b)
    /\ ~CallReturnsText(b) \/ TextOf(b) = ""

\* The provider-error taxonomy of each backend.
ProviderErrors(b) ==
    IF b = "openai" THEN {"APIError", "APIConnectionError", "RateLimitError"} ELSE {"RpcError"}
ProviderError(b) == CallRaises(b) /\ RaisedBy(b) \in ProviderErrors(b)

Answered(status) == resp.kind = "response" /\ resp.statusCode = status
Answered200With(text) ==
    /\ Answered(200)
    /\ resp.body = json_dumps("output_text" :> text)
Answered500 ==
    /\ Answered(500)
    /\ resp.body = json_dumps("error" :> "Comment generation failed")

\* ---------------------------------------------------------------------- C1
\* C1: for a request with a non-blank prompt and either preferred backend, if
\* the preferred backend's call returns a text, generate_comment returns
\* exactly that text and the alternate backend is not called.
C1_PreferredSuccess ==
    (GenerationRequest /\ CallReturnsText(Preferred))
        => /\ output_text = Return(StrVal(TextOf(Preferred)))
           /\ calls = <<Preferred>>

C1_Witness ==
    /\ GenerationRequest
    /\ ReqObject.api = AStr("openai")
    /\ CallReturnsText("openai")
    /\ CallReturnsText("xai")
    /\ TextOf("openai") = "Hello!"
    /\ TextOf("xai") = "Nice work"
    /\ calls = <<"openai">>

\* ---------------------------------------------------------------------- C2
\* C2: if the preferred backend's call fails with a provider error and the
\* alternate's call returns a text, the alternate is called exactly once,
\* after the preferred one, generate_comment returns the alternate's text and
\* lambda_handler answers 200 with output_text equal to it.
C2_FallbackSuccess ==
    (GenerationRequest /\ ProviderError(Preferred) /\ CallReturnsText(Alternate))
        => /\ calls = <<Preferred, Alternate>>
           /\ output_text = Return(StrVal(TextOf(Alternate)))
           /\ Answered200With(TextOf(Alternate))

\* api=openai, OpenAI rate-limited, xAI returns "Hello!": 200 {"output_text": "Hello!"}
C2_Witness ==
    /\ GenerationRequest
    /\ ReqObject.api = AStr("openai")
    /\ openai_client.kind = "raise"
    /\ openai_client.exc = "RateLimitError"
    /\ xai_client.kind = "response"
    /\ xai_client.content = "Hello!"
    /\ Answered200With("Hello!")

C4_EmptyIsFailure_Original ==
    (GenerationRequest /\ CallReturnsNoText(Preferred) /\ CallReturnsText(Alternate)
     /\ TextOf(Alternate) # "")
        => /\ calls = <<Preferred, Alternate>>
           /\ output_text = Return(StrVal(TextOf(Alternate)))

\* C4 amended: a call of the preferred backend that returns without a text is
\* no provider failure: the alternate is not called and generate_comment
\* returns what the preferred backend returned; lambda_handler answers 500
\* with the generic message when that is None (the OpenAI response has no
\* output_text) and 200 with an empty output_text when it is the empty string.
C4_EmptyIsReturned ==
    (GenerationRequest /\ CallReturnsNoText(Preferred))
        => /\ calls = <<Preferred>>
           /\ IF CallReturnsText(Preferred)
              THEN output_text = Return(StrVal("")) /\ Answered200With("")
              ELSE output_text = Return(NoneVal) /\ Answered500

C4_Witness ==
    /\ GenerationRequest
    /\ Preferred = "openai"
    /\ openai_client.kind = "response"
    /\ ~openai_client.has_output_text
    /\ CallReturnsText("xai")
    /\ TextOf("xai") = "Hello!"
    /\ Answered500

\* ---------------------------------------------------------------------- C5
\* A streaming POST that carries no prompt: its body is a JSON object whose
\* "request" is missing, empty or whitespace only, and it has no workInfo.
StreamingBlankPrompt ==
    /\ mode = "streaming"
    /\ request.k = "object"
    /\ request.workInfo.t = "absent"
    /\ \/ request.request.t = "absent"
       \/ \A i \in 1..Len(request.request.v) : request.request.v[i] \in Whitespace

\* C5: a buffered POST whose "input" is missing, empty or whitespace only is
\* answered 400 and no backend is called; the same holds for a blank prompt in
\* streaming mode.
C5_BlankPromptRejected ==
    ((BufferedPost /\ BlankInput) \/ StreamingBlankPrompt)
        => Answered(400) /\ calls = <<>>

\* The buffered half of C5 alone, which the code satisfies.
C5_BufferedBlankPromptRejected ==
    (BufferedPost /\ BlankInput)
        => /\ Answered(400)
           /\ resp.body = json_dumps("error" :> "Prompt is required")
           /\ calls = <<>>

\* ---------------------------------------------------------------------- C6
\* C6: a buffered POST with a non-blank prompt whose "api" is present and is
\* neither "openai" nor "xai" is answered 400 and no backend is called; when
\* "api" is absent the preferred backend, the first one called, is xai.
C6_ApiSelector ==
    /\ (BufferedPost /\ NonBlankInput /\ ReqObject.api.t # "absent"
        /\ ReqObject.api \notin {AStr("openai"), AStr("xai")})
           => Answered(400) /\ calls = <<>>
    /\ (BufferedPost /\ NonBlankInput /\ ReqObject.api.t = "absent")
           => calls # <<>> /\ calls[1] = "xai"

C6_Witness ==
    /\ BufferedPost
    /\ NonBlankInput
    /\ ReqObject.api = AStr("foo")
    /\ CallReturnsText("xai")
    /\ CallReturnsText("openai")
    /\ Answered(400)

C6_WitnessDefault ==
    /\ BufferedPost
    /\ NonBlankInput
    /\ ReqObject.api.t = "absent"
    /\ calls = <<"xai", "openai">>

\* ---------------------------------------------------------------------- C7
\* C7: in both modes a POST whose body is not well-formed JSON is answered
\* 400 and no backend is contacted.
C7_MalformedJsonRejected ==
    (\/ mode = "buffered" /\ request.httpMethod = "POST" /\ request.body.k = "malformed"
     \/ mode = "streaming" /\ request.k = "malformed")
        => Answered(400) /\ calls = <<>>

\* The buffered half of C7 alone, which the code satisfies.
C7_BufferedMalformedJsonRejected ==
    (mode = "buffered" /\ request.httpMethod = "POST" /\ request.body.k = "malformed")
        => /\ Answered(400)
           /\ resp.body = json_dumps("error" :> "Invalid JSON format")
           /\ calls = <<>>

\* ---------------------------------------------------------------------- C8
\* The text fragment of a provider event, if it is one.
IsFragment(e) == IF streamer = "openai" THEN e.type = "response.output_text.delta" ELSE TRUE
FragmentOf(e) == IF streamer = "openai" THEN e.delta ELSE e.content

RECURSIVE FragmentsOf(_)
FragmentsOf(events) ==
    IF events = <<>> THEN <<>>
    ELSE IF IsFragment(Head(events))
    THEN <<FragmentOf(Head(events))>> \o FragmentsOf(Tail(events))
    ELSE FragmentsOf(Tail(events))

\* The fragments the provider has emitted so far, in its order.
Emitted ==
    FragmentsOf(SubSeq(provider.events, 1,
                       IF requested < Len(provider.events) THEN requested ELSE Len(provider.events)))

RECURSIVE Concat(_)
Concat(fragments) ==
    IF fragments = <<>> THEN "" ELSE Head(fragments) \o Concat(Tail(fragments))

IsPrefix(a, b) == Len(a) <= Len(b) /\ SubSeq(b, 1, Len(a)) = a

\* C8: at every point of a streamed response the fragments written are a
\* prefix of the fragments the provider has emitted, in its order, none
\* dropped, duplicated or batched (only the fragment just yielded may be
\* unwritten); when the provider stream completes, the written fragments put
\* together are the provider's full text.
C8_OrderedPrefix ==
    mode = "streaming"
        => /\ IsPrefix(written, Emitted)
           /\ gen = "yielded" => Emitted = Append(written, pending)
           /\ gen \in {"ready", "complete", "failed"} => written = Emitted
           /\ gen = "complete" =>
                  /\ written = FragmentsOf(provider.events)
                  /\ Concat(written) = Concat(FragmentsOf(provider.events))

C8_Witness ==
    /\ mode = "streaming"
    /\ gen = "complete"
    /\ Len(provider.events) = 3
    /\ Len(written) >= 2
    /\ written[1] # written[2]
    /\ Concat(written) = "Hello"

RECURSIVE NoDuplicates(_)
NoDuplicates(q) ==
    IF q = <<>> THEN TRUE
    ELSE (\A i \in 2..Len(q) : q[i] # Head(q)) /\ NoDuplicates(Tail(q))

\* C10: if the preferred backend's call fails with an error outside its
\* provider-error taxonomy, the error leaves generate_comment and
\* lambda_handler uncaught, the alternate is not called and no response is
\* produced; in every execution each backend is called at most once, and the
\* alternate only after a caught provider error of the preferred one.
C10_UnexpectedPropagates ==
    /\ (GenerationRequest /\ CallRaises(Preferred) /\ RaisedBy(Preferred) \notin ProviderErrors(Preferred))
           => /\ output_text = Raise(RaisedBy(Preferred))
              /\ resp = Fault(RaisedBy(Preferred))
              /\ calls = <<Preferred>>
    /\ mode = "buffered"
           => /\ NoDuplicates(calls)
              /\ calls # <<>> => GenerationRequest /\ calls[1] = Preferred
              /\ Len(calls) > 1 => calls = <<Preferred, Alternate>> /\ ProviderError(Preferred)

C10_Witness ==
    /\ GenerationRequest
    /\ Preferred = "openai"
    /\ openai_client.kind = "raise"
    /\ openai_client.exc = "TypeError"
    /\ CallReturnsText("xai")
    /\ resp.kind = "fault"
    /\ calls = <<"openai">>

====
